---- MODULE Spec2Model ----
(***************************************************************************)
(* A model of the PyORM mapping layer (src/0_PyORM/main.py): record        *)
(* schemas, the statement text that save / delete / objects synthesise,    *)
(* the embedded store that executes that text, and the decoding of stored  *)
(* rows into instances.                                                    *)
(*                                                                         *)
(* Statement text is a sequence of tokens.  A StringField value is a       *)
(* sequence of one-character tokens, so the raw quoting of                 *)
(* StringField.convert and the store's reading of a quoted literal are     *)
(* both computed, not assumed to be inverse to each other.                 *)
(***************************************************************************)
EXTENDS Integers, Sequences, FiniteSets, TLC

VARIABLES tables, rows, inst, qs, last, deleted,
          DB_CONNECTION, open_conns, stack, call, iters, gone

vars == <<tables, rows, inst, qs, last, deleted,
          DB_CONNECTION, open_conns, stack, call, iters, gone>>

\* the Connector's class attributes and the connections open in the process
conn_vars == <<DB_CONNECTION, open_conns>>
\* the callers running _ensure_table_exists statement by statement
proc_vars == <<stack, call>>

-----------------------------------------------------------------------------
(* Bounds and input sets                                                   *)

NumStudents == 2
NumEnrollments == 1
MaxKey == 1

NoId == 0

\* Connector.DB_CONNECTION = None
NoConn == 0

\* in-memory instances are numbered: Students first, then EnrollmentRecords
StudentIds == 1..NumStudents
EnrollmentIds == (NumStudents + 1)..(NumStudents + NumEnrollments)

Classes == {"Student", "EnrollmentRecord"}

\* the text values a caller assigns: a plain one, a lone quote, two quotes
StrValues == { <<"a">>, <<"'">>, <<"'", "'">> }
Keys == (0 - MaxKey - 1)..MaxKey

-----------------------------------------------------------------------------
(* Record schemas: vars(cls).items() in declaration order                  *)

\* Student and EnrollmentRecord are the record types whose instances are
\* stored here.  The others are declared only to have their tables ensured:
\* Transcript extends the chain of references to three types, Employee
\* refers to itself, Author and Book refer to each other.
SchemaClasses == Classes \cup {"Transcript", "Employee", "Author", "Book"}

Reference(field_name, other_cls) ==
  << [name |-> "__module__", kind |-> "other", other_cls |-> ""],
     [name |-> field_name, kind |-> "ForeignKeyField", other_cls |-> other_cls] >>

ClassVars(cls) ==
  CASE cls = "Student"
         -> << [name |-> "__module__", kind |-> "other", other_cls |-> ""],
               [name |-> "name", kind |-> "StringField", other_cls |-> ""],
               [name |-> "is_graduating", kind |-> "BooleanField", other_cls |-> ""] >>
    [] cls = "EnrollmentRecord" -> Reference("enrolled_student", "Student")
    [] cls = "Transcript" -> Reference("record", "EnrollmentRecord")
    [] cls = "Employee" -> Reference("manager", "Employee")
    [] cls = "Author" -> Reference("favourite", "Book")
    [] cls = "Book" -> Reference("author", "Author")

StartsWithUnderscore(field_name) == field_name \in {"__module__", "__qualname__", "__doc__", "_id"}

\* the loop "for field_name, field in vars(cls).items(): if not field_name.startswith('_')"
FieldTable == [c \in Classes |-> SelectSeq(ClassVars(c), LAMBDA f : ~StartsWithUnderscore(f.name))]
FieldsOf(cls) == FieldTable[cls]

\* vars(cls)[field_name], as the position of the field in the row layout
FieldIndex(cls, field_name) ==
  CHOOSE k \in 1..Len(FieldsOf(cls)) : FieldsOf(cls)[k].name = field_name

-----------------------------------------------------------------------------
(* Field types                                                             *)

sqlite_type_name(field) ==
  CASE field.kind = "BooleanField" -> "INTEGER"
    [] field.kind = "IntField" -> "INTEGER"
    [] field.kind = "FloatField" -> "REAL"
    [] field.kind = "StringField" -> "TEXT"
    [] field.kind = "ForeignKeyField" -> "INTEGER"

\* str() of an integer, and of None
DigitStr == <<"1", "2", "3", "4", "5", "6", "7", "8", "9">>
Digits == {"0"} \cup {DigitStr[k] : k \in 1..Len(DigitStr)}
PyStrInt(n) == IF n = 0 THEN "0" ELSE DigitStr[n]
PyStrId(id) == IF id = NoId THEN "None" ELSE DigitStr[id]
IntOfDigit(tok) == IF tok = "0" THEN 0 ELSE CHOOSE k \in 1..Len(DigitStr) : DigitStr[k] = tok

\* field.convert(py_val) followed by str(): the text put into the statement.
\* py_val of a ForeignKeyField is an in-memory instance, read through insts.
ConvertText(field, py_val, insts) ==
  CASE field.kind = "BooleanField" -> << PyStrInt(IF py_val THEN 1 ELSE 0) >>
    [] field.kind = "IntField" -> << PyStrInt(py_val) >>
    [] field.kind = "FloatField" -> << PyStrInt(py_val) >>
    [] field.kind = "StringField" -> <<"'">> \o py_val \o <<"'">>
    [] field.kind = "ForeignKeyField" -> << PyStrId(insts[py_val]._id) >>

\* field.unconvert(sqlite_val)
Unconvert(field, sqlite_val) ==
  IF field.kind = "BooleanField" THEN sqlite_val # 0 ELSE sqlite_val

-----------------------------------------------------------------------------
(* Statement text                                                          *)

RECURSIVE JoinFrom(_, _, _)
JoinFrom(columns, sep, k) ==
  IF k > Len(columns) THEN <<>>
  ELSE columns[k] \o (IF k # Len(columns) THEN <<sep>> ELSE <<>>) \o JoinFrom(columns, sep, k + 1)

InsertSql(cls, vals, insts) ==
  LET columns == [k \in 1..Len(FieldsOf(cls)) |-> ConvertText(FieldsOf(cls)[k], vals[k], insts)]
  IN <<"INSERT INTO", cls, "VALUES (">> \o JoinFrom(columns, ",", 1) \o <<")">>

UpdateSql(cls, vals, id, insts) ==
  LET columns == [k \in 1..Len(FieldsOf(cls)) |->
                    <<FieldsOf(cls)[k].name, "=">> \o ConvertText(FieldsOf(cls)[k], vals[k], insts)]
  IN <<"UPDATE", cls, "SET">> \o JoinFrom(columns, ",", 1) \o <<"WHERE", "rowid", "=", PyStrId(id)>>

DeleteSql(cls, id) == <<"DELETE FROM", cls, "WHERE", "rowid", "=", PyStrId(id)>>

\* get_query_string rebuilding the WHERE clause on every pass of its loop,
\* so that only the last keyword filter is left in the statement
get_query_string_last_only(cls, filter_kwargs, insts) ==
  LET n == Len(filter_kwargs)
      cond == <<filter_kwargs[n][1], "=">> \o
              ConvertText(FieldsOf(cls)[FieldIndex(cls, filter_kwargs[n][1])], filter_kwargs[n][2], insts)
  IN <<"SELECT rowid, * FROM", cls>> \o (IF n > 0 THEN <<"WHERE">> \o cond ELSE <<>>)

\* QuerySet.get_query_string; filter_kwargs is a sequence of <<name, value>>
get_query_string(cls, filter_kwargs, insts) ==
  LET conds == [k \in 1..Len(filter_kwargs) |->
                  <<filter_kwargs[k][1], "=">> \o
                  ConvertText(FieldsOf(cls)[FieldIndex(cls, filter_kwargs[k][1])], filter_kwargs[k][2], insts)]
  IN <<"SELECT rowid, * FROM", cls>> \o
     (IF Len(filter_kwargs) > 0 THEN <<"WHERE">> ELSE <<>>) \o
     JoinFrom(conds, "AND", 1)

\* the statement of load_fk_field without its WHERE clause
LoadFkSqlNoWhere(other_cls, other_id) ==
  <<"SELECT rowid, * FROM", other_cls, "LIMIT 1">>

\* the statement of load_fk_field
LoadFkSql(other_cls, other_id) ==
  <<"SELECT rowid, * FROM", other_cls, "WHERE", "rowid", "=", PyStrId(other_id), "LIMIT 1">>

-----------------------------------------------------------------------------
(* The embedded store: reading statement text                              *)

ParseFail == [ok |-> FALSE, items |-> <<>>, next |-> 0]

\* a quoted literal, scanned from the token after its opening quote: two
\* adjacent quotes stand for one quote, a single quote ends the literal
RECURSIVE ScanStr(_, _, _)
ScanStr(txt, j, acc) ==
  IF j > Len(txt) THEN [ok |-> FALSE, k |-> "text", v |-> <<>>, next |-> 0]
  ELSE IF txt[j] = "'"
       THEN IF j + 1 <= Len(txt) /\ txt[j + 1] = "'"
            THEN ScanStr(txt, j + 2, Append(acc, "'"))
            ELSE [ok |-> TRUE, k |-> "text", v |-> acc, next |-> j + 1]
       ELSE ScanStr(txt, j + 1, Append(acc, txt[j]))

\* one literal value at position j: an integer, or a quoted text; a bare word
\* (such as None) names no column and is rejected
ParseLiteral(txt, j) ==
  IF j > Len(txt) THEN [ok |-> FALSE, k |-> "int", v |-> 0, next |-> 0]
  ELSE IF txt[j] \in Digits THEN [ok |-> TRUE, k |-> "int", v |-> IntOfDigit(txt[j]), next |-> j + 1]
  ELSE IF txt[j] = "'" THEN ScanStr(txt, j + 1, <<>>)
  ELSE [ok |-> FALSE, k |-> "int", v |-> 0, next |-> 0]

\* a list of literals (withCol = FALSE) or of col=literal terms (withCol =
\* TRUE) separated by sep, from position i; next is the first token after it
RECURSIVE ParseItems(_, _, _, _, _)

\* the list continued after the literal lit was read for the term at i
ParseItemsAfter(txt, i, withCol, sep, acc, lit) ==
  IF ~lit.ok THEN ParseFail
  ELSE IF lit.next <= Len(txt) /\ txt[lit.next] = sep
       THEN ParseItems(txt, lit.next + 1, withCol, sep,
                       Append(acc, [col |-> IF withCol THEN txt[i] ELSE "", k |-> lit.k, v |-> lit.v]))
       ELSE [ok |-> TRUE,
             items |-> Append(acc, [col |-> IF withCol THEN txt[i] ELSE "", k |-> lit.k, v |-> lit.v]),
             next |-> lit.next]

ParseItems(txt, i, withCol, sep, acc) ==
  IF withCol /\ ~(i + 1 <= Len(txt) /\ txt[i + 1] = "=") THEN ParseFail
  ELSE ParseItemsAfter(txt, i, withCol, sep, acc, ParseLiteral(txt, IF withCol THEN i + 2 ELSE i))

\* the WHERE clause expected at position i
ParseWhere(txt, i) ==
  IF i <= Len(txt) /\ txt[i] = "WHERE" THEN ParseItems(txt, i + 1, TRUE, "AND", <<>>) ELSE ParseFail

ColumnNames(cls) == {FieldsOf(cls)[k].name : k \in 1..Len(FieldsOf(cls))}

ColumnKind(cls, col) ==
  IF col = "rowid" THEN "int"
  ELSE IF sqlite_type_name(FieldsOf(cls)[FieldIndex(cls, col)]) = "TEXT" THEN "text" ELSE "int"

\* col = literal on one stored row
TermHolds(cls, rowid, row, term) ==
  /\ ColumnKind(cls, term.col) = term.k
  /\ IF term.col = "rowid" THEN rowid = term.v ELSE row[FieldIndex(cls, term.col)] = term.v

WhereHolds(cls, rowid, row, terms) ==
  \A k \in 1..Len(terms) : TermHolds(cls, rowid, row, terms[k])

TermsValid(cls, terms) ==
  \A k \in 1..Len(terms) : terms[k].col \in ColumnNames(cls) \cup {"rowid"}

SetMax(S) == CHOOSE x \in S : \A y \in S : y <= x
SetMin(S) == CHOOSE x \in S : \A y \in S : x <= y

RECURSIVE Ascending(_)
Ascending(S) == IF S = {} THEN <<>> ELSE <<SetMin(S)>> \o Ascending(S \ {SetMin(S)})

-----------------------------------------------------------------------------
(* The embedded store: executing a statement (Connector.execute)           *)
(* tbls is the set of existing tables, rws[t] maps rowid to the stored row *)

ExecError(rws) == [ok |-> FALSE, rows |-> rws, lastrowid |-> NoId, result |-> <<>>]

\* the engine gives a new row the largest rowid in the table plus one
NewRowid(table) == IF DOMAIN table = {} THEN 1 ELSE SetMax(DOMAIN table) + 1

\* INSERT with its VALUES list read as p
InsertParsed(txt, tbls, rws, p, newid) ==
  IF /\ txt[2] \in tbls
     /\ p.ok
     /\ p.next = Len(txt)
     /\ txt[p.next] = ")"
     /\ Len(p.items) = Len(FieldsOf(txt[2]))
  THEN [ok |-> TRUE,
        rows |-> [rws EXCEPT ![txt[2]] = [r \in DOMAIN rws[txt[2]] \cup {newid} |->
                                           IF r = newid
                                           THEN [k \in 1..Len(p.items) |-> p.items[k].v]
                                           ELSE rws[txt[2]][r]]],
        lastrowid |-> newid, result |-> <<>>]
  ELSE ExecError(rws)

ExecInsert(txt, tbls, rws) ==
  InsertParsed(txt, tbls, rws, ParseItems(txt, 4, FALSE, ",", <<>>), NewRowid(rws[txt[2]]))

\* a row after the assignments of a SET list; a column named twice takes the
\* last value
AssignedRow(cls, row, items) ==
  [c \in 1..Len(row) |->
     IF \E k \in 1..Len(items) : FieldIndex(cls, items[k].col) = c
     THEN items[SetMax({k \in 1..Len(items) : FieldIndex(cls, items[k].col) = c})].v
     ELSE row[c]]

\* UPDATE with its SET list read as p and its WHERE clause as w
UpdateParsed(txt, tbls, rws, p, w) ==
  IF /\ txt[2] \in tbls
     /\ p.ok
     /\ w.ok
     /\ w.next = Len(txt) + 1
     /\ \A k \in 1..Len(p.items) : p.items[k].col \in ColumnNames(txt[2])
     /\ TermsValid(txt[2], w.items)
  THEN [ok |-> TRUE,
        rows |-> [rws EXCEPT ![txt[2]] = [r \in DOMAIN rws[txt[2]] |->
                                           IF WhereHolds(txt[2], r, rws[txt[2]][r], w.items)
                                           THEN AssignedRow(txt[2], rws[txt[2]][r], p.items)
                                           ELSE rws[txt[2]][r]]],
        lastrowid |-> NoId, result |-> <<>>]
  ELSE ExecError(rws)

UpdateSetParsed(txt, tbls, rws, p) ==
  UpdateParsed(txt, tbls, rws, p, IF p.ok THEN ParseWhere(txt, p.next) ELSE ParseFail)

ExecUpdate(txt, tbls, rws) ==
  UpdateSetParsed(txt, tbls, rws, ParseItems(txt, 4, TRUE, ",", <<>>))

\* DELETE with its WHERE clause read as w
DeleteParsed(txt, tbls, rws, w) ==
  IF txt[2] \in tbls /\ w.ok /\ w.next = Len(txt) + 1 /\ TermsValid(txt[2], w.items)
  THEN [ok |-> TRUE,
        rows |-> [rws EXCEPT ![txt[2]] =
                    [r \in {x \in DOMAIN rws[txt[2]] : ~WhereHolds(txt[2], x, rws[txt[2]][x], w.items)}
                       |-> rws[txt[2]][r]]],
        lastrowid |-> NoId, result |-> <<>>]
  ELSE ExecError(rws)

ExecDelete(txt, tbls, rws) == DeleteParsed(txt, tbls, rws, ParseWhere(txt, 3))

\* the rows with the rowids hit, each as (rowid, column values...)
RowTuples(table, hit, limit1) ==
  [k \in 1..(IF limit1 /\ Len(hit) > 1 THEN 1 ELSE Len(hit)) |-> <<hit[k]>> \o table[hit[k]]]

\* SELECT with its WHERE clause read as w; rows come back in rowid order
SelectParsed(txt, tbls, rws, w, limit1) ==
  IF /\ txt[2] \in tbls
     /\ w.ok
     /\ (w.next = Len(txt) + 1 \/ limit1)
     /\ TermsValid(txt[2], w.items)
  THEN [ok |-> TRUE, rows |-> rws, lastrowid |-> NoId,
        result |-> RowTuples(rws[txt[2]],
                             Ascending({r \in DOMAIN rws[txt[2]] :
                                          WhereHolds(txt[2], r, rws[txt[2]][r], w.items)}),
                             limit1)]
  ELSE ExecError(rws)

SelectWhere(txt, tbls, rws, w) ==
  SelectParsed(txt, tbls, rws, w, w.ok /\ w.next = Len(txt) /\ txt[Len(txt)] = "LIMIT 1")

ExecSelect(txt, tbls, rws) ==
  SelectWhere(txt, tbls, rws,
              IF Len(txt) >= 3 /\ txt[3] = "WHERE" THEN ParseWhere(txt, 3)
              ELSE [ok |-> TRUE, items |-> <<>>, next |-> 3])

\* Connector.is_connected
is_connected == DB_CONNECTION # NoConn

\* the statement is run on the store whether or not a connection is held
HasCursorAlways(conn) == TRUE

\* "assert cls.is_connected" tests the bound method, which is always true, so
\* what stops execute is cls.DB_CONNECTION.cursor(): it raises on None
HasCursor(conn) == conn # NoConn

\* Connector.execute
execute(sql, tbls, rws) ==
  IF ~HasCursor(DB_CONNECTION) THEN ExecError(rws)
  ELSE CASE sql[1] = "INSERT INTO" -> ExecInsert(sql, tbls, rws)
         [] sql[1] = "UPDATE" -> ExecUpdate(sql, tbls, rws)
         [] sql[1] = "DELETE FROM" -> ExecDelete(sql, tbls, rws)
         [] sql[1] = "SELECT rowid, * FROM" -> ExecSelect(sql, tbls, rws)

-----------------------------------------------------------------------------
(* Table lifecycle                                                         *)

\* the existence probe against sqlite_master
table_exists(cls, tbls) == Cardinality({t \in tbls : t = cls}) = 1

RECURSIVE ensure_table_exists(_, _)
RECURSIVE EnsureReferenced(_, _, _)

\* the first loop of _create_table, from class attribute k on: the table of
\* every ForeignKeyField attribute is ensured before the statement is built
EnsureReferenced(cls, k, tbls) ==
  IF k > Len(ClassVars(cls)) THEN tbls
  ELSE EnsureReferenced(cls, k + 1,
         IF ClassVars(cls)[k].kind = "ForeignKeyField"
         THEN ensure_table_exists(ClassVars(cls)[k].other_cls, tbls)
         ELSE tbls)

create_table(cls, tbls) == EnsureReferenced(cls, 1, tbls) \cup {cls}

ensure_table_exists(cls, tbls) ==
  IF ~table_exists(cls, tbls) THEN create_table(cls, tbls) ELSE tbls

-----------------------------------------------------------------------------
(* Decoding a stored row                                                   *)

NoObj == [cls |-> "", _id |-> NoId, vals |-> <<>>]

RECURSIVE init_from_db_tuple(_, _, _, _)
RECURSIVE load_fk_field(_, _, _, _)

\* the instance built from the decoded parts, unless decoding one of them failed
BuildInstance(cls, rowid, part) ==
  IF \A idx \in 1..Len(part) : part[idx].ok
  THEN [ok |-> TRUE,
        obj |-> [cls |-> cls, _id |-> rowid, vals |-> [idx \in 1..Len(part) |-> part[idx].obj]]]
  ELSE [ok |-> FALSE, obj |-> NoObj]

\* tup = (rowid, value of field 1, value of field 2, ...)
init_from_db_tuple(cls, tup, tbls, rws) ==
  BuildInstance(cls, tup[1],
    [idx \in 1..Len(FieldsOf(cls)) |->
       IF FieldsOf(cls)[idx].kind = "ForeignKeyField"
       THEN load_fk_field(FieldsOf(cls)[idx], tup[idx + 1], tbls, rws)
       ELSE [ok |-> TRUE, obj |-> Unconvert(FieldsOf(cls)[idx], tup[idx + 1])]])

\* load_fk_field returning None when fetchone() found no row
LoadFetchedOrNone(field, cursor, tbls, rws) ==
  IF cursor.ok /\ Len(cursor.result) > 0
  THEN init_from_db_tuple(field.other_cls, cursor.result[1], tbls, rws)
  ELSE [ok |-> cursor.ok, obj |-> NoObj]

\* fetchone() of an empty result is None, which init_from_db_tuple cannot unpack
LoadFetched(field, cursor, tbls, rws) ==
  IF cursor.ok /\ Len(cursor.result) > 0
  THEN init_from_db_tuple(field.other_cls, cursor.result[1], tbls, rws)
  ELSE [ok |-> FALSE, obj |-> NoObj]

load_fk_field(field, other_id, tbls, rws) ==
  LoadFetched(field, execute(LoadFkSql(field.other_cls, other_id), tbls, rws), tbls, rws)

-----------------------------------------------------------------------------
(* State                                                                   *)
(* tables, rows: the store.  inst: the caller's live instances.  qs: the   *)
(* result set the caller holds.  last: the call made last and how it       *)
(* ended (obj is the instance __getitem__ returned).  deleted: the rowids  *)
(* DELETE statements have removed so far, per table.  DB_CONNECTION: the   *)
(* connection the Connector holds; open_conns: the connections opened and  *)
(* not closed.  stack, call: per caller, the frames of a running           *)
(* _ensure_table_exists and what the caller called.  iters: the iterators  *)
(* the caller holds on qs; with the result set it lets go of, it lets go   *)
(* of its iterators.  gone: the instances whose delete has run.            *)

NoQs == [model_cls |-> "", items |-> <<>>]

Op(op, i, cls, ok, branch, filter_kwargs, pos, obj) ==
  [op |-> op, inst |-> i, cls |-> cls, ok |-> ok, branch |-> branch,
   filter_kwargs |-> filter_kwargs, key |-> 0, pos |-> pos, obj |-> obj]

NewInstance(cls) == [cls |-> cls, _id |-> NoId, vals |-> <<>>]

NumCallers == 2
Callers == 1..NumCallers
NoCall == [op |-> "", cls |-> "", inst |-> 0, outcome |-> ""]

NumIterators == 2
IterIds == 1..NumIterators
NoIter == [idx |-> 0, live |-> FALSE]

InitWith(pool) ==
  /\ tables = {}
  /\ rows = [c \in Classes |-> <<>>]
  /\ inst = [i \in pool |-> NewInstance(IF i \in StudentIds THEN "Student" ELSE "EnrollmentRecord")]
  /\ qs = NoQs
  /\ last = Op("init", 0, "", TRUE, "", <<>>, 0, NoObj)
  /\ deleted = [c \in Classes |-> {}]
  /\ stack = [c \in Callers |-> <<>>]
  /\ call = [c \in Callers |-> NoCall]
  /\ iters = [it \in IterIds |-> NoIter]
  /\ gone = {}

\* AbstractDBTest.setUp has run: one connection is held
Connected ==
  /\ DB_CONNECTION = 1
  /\ open_conns = {1}

\* no connect call was made yet
NotConnected ==
  /\ DB_CONNECTION = NoConn
  /\ open_conns = {}

\* keyword filters over the given <<name, value>> pairs: none, one, or two on
\* different fields in either order
FilterChoices(pairs) ==
  {<<>>} \cup {<<p>> : p \in pairs}
         \cup {pq \in {<<p, q>> : p \in pairs, q \in pairs} : pq[1][1] # pq[2][1]}

-----------------------------------------------------------------------------
(* Operations                                                              *)

\* the caller assigns every field of instance i
SetFields(i, vals) ==
  /\ inst' = [inst EXCEPT ![i].vals = vals]
  /\ last' = Op("set", i, inst[i].cls, TRUE, "", <<>>, 0, NoObj)
  /\ UNCHANGED <<tables, rows, qs, deleted, conn_vars, proc_vars, iters, gone>>

\* the first statement of the call, the existence probe, raises: nothing is
\* written
Raised(op, i, cls) ==
  /\ last' = Op(op, i, cls, FALSE, "", <<>>, 0, NoObj)
  /\ UNCHANGED <<tables, rows, inst, qs, deleted>>

\* vars(self)[field_name] raises KeyError: the fields were never assigned
SaveUnassigned(i, tbls) ==
  /\ tables' = tbls
  /\ last' = Op("save", i, inst[i].cls, FALSE, IF inst[i]._id = NoId THEN "insert" ELSE "update", <<>>, 0, NoObj)
  /\ UNCHANGED <<rows, inst, qs, deleted>>

\* the insert branch inside a transaction with the table creation: a
\* rejected INSERT undoes the CREATE TABLE
SaveInsertRollsBack(i, tbls, cursor) ==
  /\ tables' = IF cursor.ok THEN tbls ELSE tables
  /\ rows' = cursor.rows
  /\ inst' = IF cursor.ok THEN [inst EXCEPT ![i]._id = cursor.lastrowid] ELSE inst
  /\ last' = Op("save", i, inst[i].cls, cursor.ok, "insert", <<>>, 0, NoObj)
  /\ UNCHANGED <<qs, deleted>>

\* the insert branch, cursor being the outcome of the INSERT
SaveInsert(i, tbls, cursor) ==
  /\ tables' = tbls
  /\ rows' = cursor.rows
  /\ inst' = IF cursor.ok THEN [inst EXCEPT ![i]._id = cursor.lastrowid] ELSE inst
  /\ last' = Op("save", i, inst[i].cls, cursor.ok, "insert", <<>>, 0, NoObj)
  /\ UNCHANGED <<qs, deleted>>

\* the update branch with "self._id = cursor.lastrowid" moved after the
\* if/else, so that an update also overwrites the identity
SaveUpdateReassignsId(i, tbls, cursor) ==
  /\ tables' = tbls
  /\ rows' = cursor.rows
  /\ inst' = IF cursor.ok THEN [inst EXCEPT ![i]._id = cursor.lastrowid] ELSE inst
  /\ last' = Op("save", i, inst[i].cls, cursor.ok, "update", <<>>, 0, NoObj)
  /\ UNCHANGED <<qs, deleted>>

\* the update branch, cursor being the outcome of the UPDATE
SaveUpdate(i, tbls, cursor) ==
  /\ tables' = tbls
  /\ rows' = cursor.rows
  /\ inst' = inst
  /\ last' = Op("save", i, inst[i].cls, cursor.ok, "update", <<>>, 0, NoObj)
  /\ UNCHANGED <<qs, deleted>>

\* save once _ensure_table_exists has left the tables tbls
SaveEnsured(i, tbls) ==
  IF inst[i].vals = <<>> THEN SaveUnassigned(i, tbls)
  ELSE IF inst[i]._id = NoId
  THEN SaveInsert(i, tbls, execute(InsertSql(inst[i].cls, inst[i].vals, inst), tbls, rows))
  ELSE SaveUpdate(i, tbls, execute(UpdateSql(inst[i].cls, inst[i].vals, inst[i]._id, inst), tbls, rows))

\* Model.save
Save(i) ==
  /\ IF HasCursor(DB_CONNECTION)
     THEN SaveEnsured(i, ensure_table_exists(inst[i].cls, tables))
     ELSE Raised("save", i, inst[i].cls)
  /\ UNCHANGED <<conn_vars, proc_vars, iters, gone>>

\* delete once the table is ensured, cursor being the outcome of the DELETE
DeleteExecuted(i, tbls, cursor) ==
  /\ tables' = tbls
  /\ rows' = cursor.rows
  /\ deleted' = [deleted EXCEPT ![inst[i].cls] = @ \cup (DOMAIN rows[inst[i].cls] \ DOMAIN cursor.rows[inst[i].cls])]
  /\ gone' = IF cursor.ok THEN gone \cup {i} ELSE gone
  /\ last' = Op("delete", i, inst[i].cls, cursor.ok, "", <<>>, 0, NoObj)
  /\ UNCHANGED <<inst, qs>>

DeleteEnsured(i, tbls) ==
  DeleteExecuted(i, tbls, execute(DeleteSql(inst[i].cls, inst[i]._id), tbls, rows))

\* Model.delete
Delete(i) ==
  /\ IF HasCursor(DB_CONNECTION)
     THEN DeleteEnsured(i, ensure_table_exists(inst[i].cls, tables))
     ELSE Raised("delete", i, inst[i].cls) /\ UNCHANGED gone
  /\ UNCHANGED <<conn_vars, proc_vars, iters>>

\* QuerySet.__init__ keeping fetchone() instead of fetchall()
QuerySetInitFetchOne(cls, filter_kwargs, query_result) ==
  /\ qs' = IF query_result.ok
           THEN [model_cls |-> cls,
                 items |-> IF Len(query_result.result) > 1
                           THEN <<query_result.result[1]>> ELSE query_result.result]
           ELSE qs
  /\ last' = Op("objects", 0, cls, query_result.ok, "", filter_kwargs, 0, NoObj)
  /\ UNCHANGED <<tables, rows, inst, deleted>>

\* QuerySet.__init__, query_result being the outcome of the SELECT: items
\* keeps fetchall(); a failed statement raises and constructs nothing
QuerySetInit(cls, filter_kwargs, query_result) ==
  /\ qs' = IF query_result.ok
           THEN [model_cls |-> cls, items |-> query_result.result]
           ELSE qs
  /\ last' = Op("objects", 0, cls, query_result.ok, "", filter_kwargs, 0, NoObj)
  /\ UNCHANGED <<tables, rows, inst, deleted>>

\* Model.objects(**kwargs)
Objects(cls, filter_kwargs) ==
  /\ QuerySetInit(cls, filter_kwargs, execute(get_query_string(cls, filter_kwargs, inst), tables, rows))
  /\ iters' = IF last'.ok THEN [it \in IterIds |-> NoIter] ELSE iters
  /\ UNCHANGED <<conn_vars, proc_vars, gone>>

\* the outcome of an access with key: elem is the decoded row, or the access
\* failed
Accessed(key, pos, elem) ==
  /\ last' = [(IF elem.ok
               THEN Op("getitem", 0, qs.model_cls, TRUE, "", <<>>, pos, elem.obj)
               ELSE Op("getitem", 0, qs.model_cls, FALSE, "", <<>>, pos, NoObj))
              EXCEPT !.key = key]
  /\ UNCHANGED <<tables, rows, inst, qs, deleted>>

\* self.items[key] reading key as a position counted from one
ListPositionFromOne(key, len) ==
  IF key >= 1 /\ key <= len THEN key ELSE 0

\* a Python list index: a negative key counts from the end; 0 is out of range
ListPosition(key, len) ==
  IF key < 0 THEN (IF key + len >= 0 THEN key + len + 1 ELSE 0)
  ELSE IF key < len THEN key + 1 ELSE 0

\* __getitem__ fetching the row again by its rowid instead of decoding the
\* tuple kept in items
GetitemAtLive(key, pos) ==
  IF pos = 0 \/ qs.items[pos][1] \notin DOMAIN rows[qs.model_cls]
  THEN Accessed(key, pos, [ok |-> FALSE, obj |-> NoObj])
  ELSE Accessed(key, pos, init_from_db_tuple(qs.model_cls,
                            <<qs.items[pos][1]>> \o rows[qs.model_cls][qs.items[pos][1]], tables, rows))

\* pos = 0: IndexError, list index out of range
GetitemAt(key, pos) ==
  IF pos = 0 THEN Accessed(key, pos, [ok |-> FALSE, obj |-> NoObj])
  ELSE Accessed(key, pos, init_from_db_tuple(qs.model_cls, qs.items[pos], tables, rows))

\* QuerySet.__getitem__
Getitem(key) ==
  /\ qs.model_cls # ""
  /\ GetitemAt(key, ListPosition(key, Len(qs.items)))
  /\ UNCHANGED <<conn_vars, proc_vars, iters, gone>>

\* QuerySet.__iter__ handing out an iterator that goes on where the
\* iterator handed out before it stands
IterShared(it) ==
  /\ qs.model_cls # ""
  /\ iters' = [iters EXCEPT ![it] = [idx |-> SetMax({iters[o].idx : o \in IterIds}), live |-> TRUE]]
  /\ last' = Op("iter", it, qs.model_cls, TRUE, "", <<>>, 0, NoObj)
  /\ UNCHANGED <<tables, rows, inst, qs, deleted, conn_vars, proc_vars, gone>>

\* QuerySet.__iter__: a new Iterator on the result set the caller holds
Iter(it) ==
  /\ qs.model_cls # ""
  /\ iters' = [iters EXCEPT ![it] = [idx |-> 0, live |-> TRUE]]
  /\ last' = Op("iter", it, qs.model_cls, TRUE, "", <<>>, 0, NoObj)
  /\ UNCHANGED <<tables, rows, inst, qs, deleted, conn_vars, proc_vars, gone>>

\* __next__ below the end of items: elem is the decoded row; idx moves on
\* only after the decoding has returned
NextDecoded(it, elem) ==
  /\ iters' = IF elem.ok THEN [iters EXCEPT ![it].idx = @ + 1] ELSE iters
  /\ last' = IF elem.ok
             THEN Op("next", it, qs.model_cls, TRUE, "", <<>>, iters[it].idx + 1, elem.obj)
             ELSE Op("next", it, qs.model_cls, FALSE, "raised", <<>>, iters[it].idx + 1, NoObj)

\* QuerySet.Iterator.__next__
NextItem(it) ==
  /\ iters[it].live
  /\ IF iters[it].idx >= Len(qs.items)
     THEN /\ last' = Op("next", it, qs.model_cls, FALSE, "StopIteration", <<>>, 0, NoObj)
          /\ UNCHANGED iters
     ELSE NextDecoded(it, init_from_db_tuple(qs.model_cls, qs.items[iters[it].idx + 1], tables, rows))
  /\ UNCHANGED <<tables, rows, inst, qs, deleted, conn_vars, proc_vars, gone>>

-----------------------------------------------------------------------------
(* Specification Spec: Student instances only                              *)

\* the assignments a caller makes to a Student: one per text value
StudentValues == { <<<<"a">>, TRUE>>, <<<<"'">>, TRUE>>, <<<<"'", "'">>, FALSE>> }

StudentFilterPairs ==
  {<<"name", s>> : s \in StrValues} \cup {<<"is_graduating", b>> : b \in BOOLEAN}

StudentFilterChoices == FilterChoices(StudentFilterPairs)

Init == InitWith(StudentIds) /\ Connected

Next ==
  \/ \E i \in DOMAIN inst : \E vals \in StudentValues : SetFields(i, vals)
  \/ \E i \in DOMAIN inst : Save(i)
  \/ \E i \in DOMAIN inst : Delete(i)
  \/ Objects("Student", <<>>)
  \/ \E key \in Keys : Getitem(key)

Spec == Init /\ [][Next]_vars

-----------------------------------------------------------------------------
(* Properties checked under Spec                                           *)

RowIds(items) == {items[k][1] : k \in 1..Len(items)}

Saved(cls) == {i \in DOMAIN inst : inst[i].cls = cls /\ inst[i]._id # NoId}

C2_RoundTrip ==
  (last.op = "save" /\ last.ok /\ last.branch = "insert")
    => LET i == last.inst
           id == inst[i]._id
       IN /\ id \in DOMAIN rows[last.cls]
          /\ init_from_db_tuple(last.cls, <<id>> \o rows[last.cls][id], tables, rows).obj.vals
               = inst[i].vals

\* C5: Update-replaces.  A save of an instance whose identity is assigned
\* adds no row and leaves the stored row of every other instance unchanged,
\* and the instance's own stored row holds its in-memory values.
C5_UpdateReplaces ==
  [][\A i \in DOMAIN inst :
       (last'.op = "save" /\ last'.inst = i /\ last'.ok /\ inst[i]._id # NoId)
         => /\ \A c \in Classes : DOMAIN rows'[c] = DOMAIN rows[c]
            /\ \A j \in DOMAIN inst \ {i} :
                 inst[j]._id \in DOMAIN rows[inst[j].cls]
                   => rows'[inst[j].cls][inst[j]._id] = rows[inst[j].cls][inst[j]._id]]_vars

\* C6: Delete-removes-exactly-one.  An identity removed by a delete appears
\* in no result set constructed afterwards.
C6_DeleteRemoves ==
  (last.op = "objects" /\ last.ok) => RowIds(qs.items) \cap deleted[last.cls] = {}

\* C8: Table auto-creation on first touch.  After a save or a query of a
\* record type has run, the backing table of the type exists, and the query
\* did not fail.
C8_TableAutoCreated ==
  /\ last.op \in {"save", "objects"} => last.cls \in tables
  /\ (last.op = "objects" /\ Len(last.filter_kwargs) = 0) => last.ok

\* C10: Identity is assigned on first save only.  An assigned identity never
\* changes; an identity becomes assigned only in a successful save of that
\* instance, which sets it to the rowid of the row that save inserted; and a
\* successful first save always assigns it.
C10_IdentityOnFirstSaveOnly ==
  [][\A i \in DOMAIN inst :
       /\ inst[i]._id # NoId => inst'[i]._id = inst[i]._id
       /\ (inst[i]._id = NoId /\ inst'[i]._id # NoId)
            => /\ last'.op = "save" /\ last'.inst = i /\ last'.ok
               /\ inst'[i]._id \in DOMAIN rows'[inst[i].cls] \ DOMAIN rows[inst[i].cls]
       /\ (last'.op = "save" /\ last'.inst = i /\ last'.ok /\ inst[i]._id = NoId)
            => inst'[i]._id # NoId]_vars

C10_Witness ==
  /\ last.op = "save" /\ last.ok /\ last.branch = "update"
  /\ inst[last.inst]._id # NoId
  /\ \E j \in DOMAIN inst \ {last.inst} : inst[j]._id \notin {NoId, inst[last.inst]._id}

-----------------------------------------------------------------------------
(* Specification SpecQuery: saved Students queried with keyword filters    *)

\* the assignments made here: two stored rows can agree on one field and
\* differ on the other
QueryStudentValues == { <<<<"a">>, TRUE>>, <<<<"a">>, FALSE>>, <<<<"'", "'">>, FALSE>> }

NextQuery ==
  \/ \E i \in DOMAIN inst : \E vals \in QueryStudentValues : SetFields(i, vals)
  \/ \E i \in DOMAIN inst : Save(i)
  \/ \E filter_kwargs \in StudentFilterChoices : Objects("Student", filter_kwargs)

SpecQuery == Init /\ [][NextQuery]_vars

-----------------------------------------------------------------------------
(* Properties checked under SpecQuery                                      *)

\* the value a field is meant to store for py_val
StorageValue(field, py_val) ==
  IF field.kind = "BooleanField" THEN (IF py_val THEN 1 ELSE 0) ELSE py_val

\* the rowids objects(pair) returns on the current store, and whether it returns
SingleFilter(pair) == execute(get_query_string("Student", <<pair>>, inst), tables, rows)

\* C3: Filter correctness.  With the table of the type in place, objects(F=v)
\* returns a result set, and it holds exactly the stored rows whose F is the
\* storage value of v.
C3_FilterCorrect ==
  (last.op = "objects" /\ Len(last.filter_kwargs) = 1 /\ last.cls \in tables)
    => /\ last.ok
       /\ LET F == last.filter_kwargs[1][1]
              v == last.filter_kwargs[1][2]
              idx == FieldIndex(last.cls, F)
          IN RowIds(qs.items) =
               {r \in DOMAIN rows[last.cls] :
                  rows[last.cls][r][idx] = StorageValue(FieldsOf(last.cls)[idx], v)}

\* the identities of a two-field result against the two single-field results
IsIntersection(items, single1, single2) ==
  /\ single1.ok
  /\ single2.ok
  /\ RowIds(items) = RowIds(single1.result) \cap RowIds(single2.result)

\* C4: Multi-field filter.  When objects(F1=v1, F2=v2) returns, both
\* single-field queries return on the same store and the identities of the
\* two-field result are the intersection of theirs.
C4_MultiFieldFilter ==
  (last.op = "objects" /\ last.ok /\ Len(last.filter_kwargs) = 2)
    => IsIntersection(qs.items, SingleFilter(last.filter_kwargs[1]), SingleFilter(last.filter_kwargs[2]))

ProperIntersection(items, single1, single2) ==
  /\ Cardinality(RowIds(items)) = 1
  /\ Cardinality(RowIds(single1.result)) = 1
  /\ Cardinality(RowIds(single2.result)) = 2

C4_Witness ==
  /\ last.op = "objects" /\ last.ok /\ Len(last.filter_kwargs) = 2
  /\ ProperIntersection(qs.items, SingleFilter(last.filter_kwargs[1]), SingleFilter(last.filter_kwargs[2]))

-----------------------------------------------------------------------------
(* Specification SpecFk: EnrollmentRecords that reference Students         *)

FkStudentValues == { <<<<"a">>, TRUE>>, <<<<"a">>, FALSE>> }

InitFk == InitWith(StudentIds \cup EnrollmentIds) /\ Connected

NextFk ==
  \/ \E i \in DOMAIN inst \cap StudentIds : \E vals \in FkStudentValues : SetFields(i, vals)
  \/ \E i \in DOMAIN inst \cap EnrollmentIds : \E t \in DOMAIN inst \cap StudentIds : SetFields(i, <<t>>)
  \/ \E i \in DOMAIN inst : Save(i)
  \/ \E i \in DOMAIN inst : Delete(i)
  \/ \E cls \in Classes : Objects(cls, <<>>)
  \/ \E key \in Keys : Getitem(key)

SpecFk == InitFk /\ [][NextFk]_vars

-----------------------------------------------------------------------------
(* Properties checked under SpecFk                                         *)

\* C7: Reference round-trip.  A saved EnrollmentRecord row stores the
\* identity of the Student the instance refers to, and the instance decoded
\* from a row of a result set carries, in its reference field, an instance
\* whose identity is the stored reference and whose field values are those
\* decoded from the Student row of that identity.
C7_ReferenceRoundTrip ==
  /\ (last.op = "save" /\ last.ok /\ last.branch = "insert" /\ last.cls = "EnrollmentRecord")
       => rows["EnrollmentRecord"][inst[last.inst]._id][1] = inst[inst[last.inst].vals[1]]._id
  /\ (last.op = "getitem" /\ last.ok /\ last.cls = "EnrollmentRecord")
       => LET other_id == qs.items[last.pos][2]
              ref == last.obj.vals[1]
          IN /\ ref._id = other_id
             /\ other_id \in DOMAIN rows["Student"]
             /\ ref.vals = << rows["Student"][other_id][1], rows["Student"][other_id][2] # 0 >>

C7_Witness ==
  /\ last.op = "getitem" /\ last.ok /\ last.cls = "EnrollmentRecord"
  /\ DOMAIN rows["Student"] = {1, 2}
  /\ rows["Student"][1] # rows["Student"][2]
  /\ last.obj.vals[1]._id = 2

\* C9 as stated: whatever save or delete runs after a result set was
\* constructed, its count() and the instance decoded at each position stay
\* the same.
C9_DecodedStaysTheSame ==
  [][(qs.model_cls # "" /\ last'.op \in {"save", "delete"})
       => /\ Len(qs'.items) = Len(qs.items)
          /\ \A pos \in 1..Len(qs.items) :
               init_from_db_tuple(qs.model_cls, qs.items[pos], tables, rows)
                 = init_from_db_tuple(qs'.model_cls, qs'.items[pos], tables', rows')]_vars

\* C9 amended: only the construction of a result set changes the rows it
\* holds, and an instance decoded at a position has the identity and the
\* non-reference field values of the row held at that position.
C9_SnapshotOwnFields ==
  [][/\ last'.op # "objects" => qs' = qs
     /\ (last'.op = "getitem" /\ last'.ok)
          => LET tup == qs.items[last'.pos]
                 fields == FieldsOf(qs.model_cls)
             IN /\ last'.obj._id = tup[1]
                /\ \A idx \in 1..Len(fields) :
                     fields[idx].kind # "ForeignKeyField"
                       => last'.obj.vals[idx] = Unconvert(fields[idx], tup[idx + 1])]_vars

C9_Witness ==
  /\ last.op = "getitem" /\ last.ok /\ qs.model_cls = "Student"
  /\ LET tup == qs.items[last.pos]
     IN /\ tup[1] \in DOMAIN rows["Student"]
        /\ rows["Student"][tup[1]] # Tail(tup)

\* C16: Save is not atomic.  When the first save of an instance fails after
\* the ensure-table step, the backing table of its type exists, the stored
\* rows are as before, and the instance still has no identity; and a save
\* of an instance without identity takes the insert branch.
C16_SaveNotAtomic ==
  [][\A i \in DOMAIN inst :
       /\ (last'.op = "save" /\ last'.inst = i /\ ~last'.ok /\ inst[i]._id = NoId)
            => /\ inst[i].cls \in tables'
               /\ rows' = rows
               /\ inst'[i]._id = NoId
       /\ (last'.op = "save" /\ last'.inst = i /\ inst[i]._id = NoId /\ inst[i].vals # <<>>)
            => last'.branch = "insert"]_vars

\* the save of an EnrollmentRecord that refers to a Student never saved has
\* failed, and its table was created by that save
C16_Witness ==
  /\ last.op = "save" /\ ~last.ok /\ last.branch = "insert"
  /\ last.cls = "EnrollmentRecord"
  /\ inst[last.inst].vals # <<>>
  /\ inst[inst[last.inst].vals[1]]._id = NoId
  /\ inst[last.inst]._id = NoId
  /\ "EnrollmentRecord" \in tables
  /\ rows["EnrollmentRecord"] = <<>>

-----------------------------------------------------------------------------
(* Specification SpecConn: the connection lifecycle, from no connection    *)

MaxConns == 3
ConnIds == 1..MaxConns

\* Connector.connect: DB_CONNECTION is overwritten without closing the
\* connection it held.  That connection object stays open while anything
\* still refers to it (a result set keeps its cursor in query_result) and is
\* closed once it is collected: old_stays_open chooses between the two.
connect(old_stays_open) ==
  /\ Cardinality(open_conns) < MaxConns
  /\ DB_CONNECTION' = SetMin(ConnIds \ open_conns)
  /\ open_conns' = (IF old_stays_open THEN open_conns ELSE open_conns \ {DB_CONNECTION})
                      \cup {SetMin(ConnIds \ open_conns)}
  /\ last' = Op("connect", 0, "", TRUE, "", <<>>, 0, NoObj)
  /\ UNCHANGED <<tables, rows, inst, qs, deleted, proc_vars, iters, gone>>

\* Connector.disconnnect: "assert cls.is_connected()" fails with no connection
disconnnect ==
  /\ DB_CONNECTION' = NoConn
  /\ open_conns' = IF is_connected THEN open_conns \ {DB_CONNECTION} ELSE open_conns
  /\ last' = Op("disconnnect", 0, "", is_connected, "", <<>>, 0, NoObj)
  /\ UNCHANGED <<tables, rows, inst, qs, deleted, proc_vars, iters, gone>>

ConnStudentValues == { <<<<"a">>, TRUE>> }

\* one Student and the EnrollmentRecords
ConnPool == {1} \cup EnrollmentIds

InitConn == InitWith(ConnPool) /\ NotConnected

NextConn ==
  \/ \E old_stays_open \in BOOLEAN : connect(old_stays_open)
  \/ disconnnect
  \/ \E i \in DOMAIN inst \cap StudentIds : \E vals \in ConnStudentValues : SetFields(i, vals)
  \/ \E i \in DOMAIN inst \cap EnrollmentIds : \E t \in DOMAIN inst \cap StudentIds : SetFields(i, <<t>>)
  \/ \E i \in DOMAIN inst : Save(i)
  \/ \E i \in DOMAIN inst : Delete(i)
  \/ \E cls \in Classes : Objects(cls, <<>>)
  \/ \E key \in Keys : Getitem(key)

SpecConn == InitConn /\ [][NextConn]_vars

-----------------------------------------------------------------------------
(* Properties checked under SpecConn                                       *)

\* C11: Single connection.  Under every sequence of connect and disconnect
\* calls, at most one connection to the store is open at any time.
C11_SingleConnection == Cardinality(open_conns) <= 1

HasReference(cls) ==
  \E idx \in 1..Len(FieldsOf(cls)) : FieldsOf(cls)[idx].kind = "ForeignKeyField"

\* C12: No-connection precondition.  While no connection is held, a save, a
\* delete, a query, and an access that resolves a reference all fail, and
\* leave the tables, the stored rows and every instance as they were.
C12_NoConnectionFails ==
  [][(/\ ~is_connected
      /\ \/ last'.op \in {"save", "delete", "objects"}
         \/ last'.op = "getitem" /\ HasReference(last'.cls))
       => /\ ~last'.ok
          /\ tables' = tables
          /\ rows' = rows
          /\ inst' = inst]_vars

C12_Witness ==
  /\ ~is_connected
  /\ last.op = "save" /\ ~last.ok
  /\ inst[last.inst]._id = NoId
  /\ inst[last.inst].vals # <<>>
  /\ last.cls \in tables

-----------------------------------------------------------------------------
(* Table lifecycle, statement by statement                                 *)
(* A caller's stack holds the frames of _ensure_table_exists and           *)
(* _create_table it is in, innermost last.  Each action below runs one     *)
(* caller up to and including its next statement, so callers interleave    *)
(* between the existence probe and the CREATE TABLE.                       *)

\* frames the interpreter allows before it raises RecursionError
RecursionLimit == 6

Frame(fn, cls, k) == [fn |-> fn, cls |-> cls, k |-> k]
Top(st) == st[Len(st)]
Pop(st, n) == SubSeq(st, 1, Len(st) - n)

Running(c) == call[c].outcome = "running"

\* an exception leaves every frame of the call
Raise(c, error) ==
  /\ stack' = [stack EXCEPT ![c] = <<>>]
  /\ call' = [call EXCEPT ![c].outcome = error]

\* a call made from the frames st
Enter(c, st, frame) ==
  IF Len(st) >= RecursionLimit
  THEN Raise(c, "RecursionError")
  ELSE /\ stack' = [stack EXCEPT ![c] = Append(st, frame)]
       /\ UNCHANGED call

\* a caller calls cls._ensure_table_exists()
CallEnsure(c, cls) ==
  /\ ~Running(c)
  /\ stack' = [stack EXCEPT ![c] = <<Frame("_ensure_table_exists", cls, 0)>>]
  /\ call' = [call EXCEPT ![c] = [op |-> "_ensure_table_exists", cls |-> cls,
                                  inst |-> 0, outcome |-> "running"]]
  /\ UNCHANGED <<tables, rows, inst, qs, last, deleted, conn_vars, iters, gone>>

\* _ensure_table_exists: the probe; the table is there and the call returns,
\* or _create_table is entered
Probe(c) ==
  /\ Running(c)
  /\ stack[c] # <<>>
  /\ Top(stack[c]).fn = "_ensure_table_exists"
  /\ IF table_exists(Top(stack[c]).cls, tables)
     THEN /\ stack' = [stack EXCEPT ![c] = Pop(stack[c], 1)]
          /\ UNCHANGED call
     ELSE Enter(c, stack[c], Frame("_create_table", Top(stack[c]).cls, 1))
  /\ UNCHANGED <<tables, rows, inst, qs, last, deleted, conn_vars, iters, gone>>

\* the first loop of _create_table passing over every attribute without
\* ensuring the table of a ForeignKeyField
CreateLoopNoEnsure(c) ==
  /\ Running(c)
  /\ stack[c] # <<>>
  /\ Top(stack[c]).fn = "_create_table"
  /\ Top(stack[c]).k <= Len(ClassVars(Top(stack[c]).cls))
  /\ stack' = [stack EXCEPT ![c][Len(stack[c])].k = @ + 1]
  /\ UNCHANGED <<call, tables, rows, inst, qs, last, deleted, conn_vars, iters, gone>>

\* the first loop of _create_table at class attribute k
CreateLoop(c) ==
  /\ Running(c)
  /\ stack[c] # <<>>
  /\ Top(stack[c]).fn = "_create_table"
  /\ Top(stack[c]).k <= Len(ClassVars(Top(stack[c]).cls))
  /\ IF ClassVars(Top(stack[c]).cls)[Top(stack[c]).k].kind = "ForeignKeyField"
     THEN Enter(c, [stack[c] EXCEPT ![Len(stack[c])].k = @ + 1],
                Frame("_ensure_table_exists",
                      ClassVars(Top(stack[c]).cls)[Top(stack[c]).k].other_cls, 0))
     ELSE /\ stack' = [stack EXCEPT ![c][Len(stack[c])].k = @ + 1]
          /\ UNCHANGED call
  /\ UNCHANGED <<tables, rows, inst, qs, last, deleted, conn_vars, iters, gone>>

\* the engine accepting CREATE TABLE for a table that exists
CreateTableIfNotExists(cls, tbls) == [ok |-> TRUE, tables |-> tbls \cup {cls}]

\* the engine executing CREATE TABLE: a table of that name is an error
CreateTable(cls, tbls) ==
  IF cls \in tbls THEN [ok |-> FALSE, tables |-> tbls]
  ELSE [ok |-> TRUE, tables |-> tbls \cup {cls}]

\* the outcome of the CREATE TABLE at the end of _create_table
Created(c, cursor) ==
  /\ tables' = cursor.tables
  /\ IF cursor.ok
     THEN /\ stack' = [stack EXCEPT ![c] = Pop(stack[c], 2)]
          /\ UNCHANGED call
     ELSE Raise(c, "OperationalError")

\* Connector.execute of the CREATE TABLE statement; _create_table and the
\* _ensure_table_exists that called it return
ExecCreate(c) ==
  /\ Running(c)
  /\ stack[c] # <<>>
  /\ Top(stack[c]).fn = "_create_table"
  /\ Top(stack[c]).k > Len(ClassVars(Top(stack[c]).cls))
  /\ Created(c, CreateTable(Top(stack[c]).cls, tables))
  /\ UNCHANGED <<rows, inst, qs, last, deleted, conn_vars, iters, gone>>

\* the outermost _ensure_table_exists has returned to the caller
EnsureReturns(c) ==
  /\ Running(c)
  /\ call[c].op = "_ensure_table_exists"
  /\ stack[c] = <<>>
  /\ call' = [call EXCEPT ![c].outcome = "returned"]
  /\ UNCHANGED <<stack, tables, rows, inst, qs, last, deleted, conn_vars, iters, gone>>

\* a caller calls save() on its own instance: _ensure_table_exists comes first
CallSave(c) ==
  /\ ~Running(c)
  /\ c \in DOMAIN inst
  /\ stack' = [stack EXCEPT ![c] = <<Frame("_ensure_table_exists", inst[c].cls, 0)>>]
  /\ call' = [call EXCEPT ![c] = [op |-> "save", cls |-> inst[c].cls,
                                  inst |-> c, outcome |-> "running"]]
  /\ UNCHANGED <<tables, rows, inst, qs, last, deleted, conn_vars, iters, gone>>

\* save after its _ensure_table_exists has returned: the INSERT or UPDATE
SaveAfterEnsure(c) ==
  /\ Running(c)
  /\ call[c].op = "save"
  /\ stack[c] = <<>>
  /\ SaveEnsured(call[c].inst, tables)
  /\ call' = [call EXCEPT ![c].outcome = IF last'.ok THEN "returned" ELSE "raised"]
  /\ UNCHANGED <<stack, conn_vars, iters, gone>>

-----------------------------------------------------------------------------
(* Specification SpecTables: callers ensuring the tables of the schemas    *)

InitTables == InitWith({1}) /\ Connected

\* the statements of a running call
Step(c) == Probe(c) \/ CreateLoop(c) \/ ExecCreate(c) \/ EnsureReturns(c)

NextTables ==
  \/ \E c \in Callers : \E cls \in SchemaClasses : CallEnsure(c, cls)
  \/ \E c \in Callers : Probe(c)
  \/ \E c \in Callers : CreateLoop(c)
  \/ \E c \in Callers : ExecCreate(c)
  \/ \E c \in Callers : EnsureReturns(c)

SpecTables == InitTables /\ [][NextTables]_vars

\* a call that was made runs on: its code is sequential and never waits
SpecTablesFair == SpecTables /\ \A c \in Callers : WF_vars(Step(c))

-----------------------------------------------------------------------------
(* Properties checked under SpecTables and SpecTablesFair                  *)

\* the record types named by the Reference fields of the types in S
References(S) ==
  UNION {{ClassVars(cls)[k].other_cls :
            k \in {j \in 1..Len(ClassVars(cls)) : ClassVars(cls)[j].kind = "ForeignKeyField"}} :
         cls \in S}

RECURSIVE ReferencedWithin(_, _)
ReferencedWithin(S, n) ==
  IF n = 0 THEN S ELSE ReferencedWithin(S \cup References(S), n - 1)

\* the record types a type refers to, directly or through other types
Referenced(cls) == ReferencedWithin(References({cls}), Cardinality(SchemaClasses))

\* C13: Referenced tables first.  Whenever a CREATE TABLE for a record type
\* is executed, the table of every record type it refers to, directly or
\* through other types, exists already.
C13_ReferencedTablesFirst ==
  [][\A cls \in SchemaClasses :
       (cls \notin tables /\ cls \in tables') => Referenced(cls) \subseteq tables]_vars

C13_Witness ==
  /\ \E c \in Callers : call[c].cls = "Transcript" /\ call[c].outcome = "returned"
  /\ {"Student", "EnrollmentRecord", "Transcript"} \subseteq tables

OnCycle(cls) == cls \in Referenced(cls)

Acyclic(cls) == \A d \in Referenced(cls) \cup {cls} : ~OnCycle(d)

\* cls lies on a cycle of Reference fields none of whose tables exists
OnEmptyCycle(cls) ==
  /\ OnCycle(cls)
  /\ \A d \in Referenced(cls) : cls \in Referenced(d) => d \notin tables

\* C14: Termination of table creation.  A call of _ensure_table_exists on a
\* type whose reachable Reference graph is acyclic ends; a call on a type
\* that lies on a cycle none of whose tables exists never ends and never
\* creates a table.
C14_Termination ==
  /\ \A c \in Callers : (Running(c) /\ Acyclic(call[c].cls)) ~> ~Running(c)
  /\ [](\A c \in Callers :
          (call[c].op = "_ensure_table_exists" /\ OnEmptyCycle(call[c].cls))
            => Running(c))

-----------------------------------------------------------------------------
(* Specification SpecRace: callers saving Students concurrently, each its  *)
(* own instance                                                            *)

InitRace == InitWith(StudentIds) /\ Connected

NextRace ==
  \/ \E i \in DOMAIN inst : \E vals \in ConnStudentValues : SetFields(i, vals)
  \/ \E c \in Callers : CallSave(c)
  \/ \E c \in Callers : Probe(c)
  \/ \E c \in Callers : CreateLoop(c)
  \/ \E c \in Callers : ExecCreate(c)
  \/ \E c \in Callers : SaveAfterEnsure(c)

SpecRace == InitRace /\ [][NextRace]_vars

-----------------------------------------------------------------------------
(* Properties checked under SpecRace                                       *)

\* caller c is about to execute its CREATE TABLE
AtCreate(c) ==
  /\ Running(c)
  /\ stack[c] # <<>>
  /\ Top(stack[c]).fn = "_create_table"
  /\ Top(stack[c]).k > Len(ClassVars(Top(stack[c]).cls))

\* C15: Check-then-create race.  A caller whose save found the table absent
\* and comes to its CREATE TABLE after another caller has created the table
\* has the statement rejected: its save ends with the engine's error, writes
\* nothing and leaves its instance without identity.
C15_CheckThenCreateRace ==
  [][\A c \in Callers :
       (/\ call[c].op = "save"
        /\ AtCreate(c)
        /\ Top(stack[c]).cls \in tables
        /\ stack'[c] # stack[c])
         => /\ call'[c].outcome = "OperationalError"
            /\ tables' = tables
            /\ rows' = rows
            /\ inst'[call[c].inst]._id = NoId]_vars

\* both callers saw the table absent; one save stored its row, the other
\* was rejected at CREATE TABLE and stored none
C15_Witness ==
  \E c \in Callers : \E d \in Callers \ {c} :
    /\ call[c].op = "save" /\ call[c].outcome = "OperationalError"
    /\ call[d].op = "save" /\ call[d].outcome = "returned"
    /\ inst[call[c].inst].vals # <<>>
    /\ inst[call[c].inst]._id = NoId
    /\ inst[call[d].inst]._id # NoId
    /\ DOMAIN rows["Student"] = {inst[call[d].inst]._id}

-----------------------------------------------------------------------------
(* Specification SpecIter: result sets indexed and iterated while the      *)
(* referenced rows are saved and deleted                                   *)

\* each Student is assigned values of its own, so that rows differ
IterStudentValues(i) == << <<"a">>, i = 1 >>

NextIter ==
  \/ \E i \in DOMAIN inst \cap StudentIds : SetFields(i, IterStudentValues(i))
  \/ \E i \in DOMAIN inst \cap EnrollmentIds : \E t \in DOMAIN inst \cap StudentIds : SetFields(i, <<t>>)
  \/ \E i \in DOMAIN inst : Save(i)
  \/ \E i \in DOMAIN inst : Delete(i)
  \/ \E cls \in Classes : Objects(cls, <<>>)
  \/ Getitem(0)
  \/ \E it \in IterIds : Iter(it)
  \/ \E it \in IterIds : NextItem(it)

SpecIter == InitFk /\ [][NextIter]_vars

-----------------------------------------------------------------------------
(* Properties checked under SpecIter                                       *)

\* the EnrollmentRecord rows that store the Student identity id
Referencing(id) ==
  {r \in DOMAIN rows["EnrollmentRecord"] : rows["EnrollmentRecord"][r][1] = id}

\* obj has the identity and the non-reference field values of the row tup
DecodesRow(obj, cls, tup) ==
  /\ obj._id = tup[1]
  /\ \A idx \in 1..Len(FieldsOf(cls)) :
       FieldsOf(cls)[idx].kind # "ForeignKeyField"
         => obj.vals[idx] = Unconvert(FieldsOf(cls)[idx], tup[idx + 1])

\* C17: Unprotected deletion of referenced records.  Deleting a Student
\* whose row an EnrollmentRecord row refers to succeeds, removes that
\* Student row only, and changes no EnrollmentRecord row and no instance;
\* decoding a referring row then fails, and so does every indexing or
\* iteration step on a row whose reference names no stored row.
C17_UnprotectedDeletion ==
  [][/\ \A i \in DOMAIN inst :
          (/\ last'.op = "delete" /\ last'.inst = i
           /\ inst[i].cls = "Student"
           /\ inst[i]._id \in DOMAIN rows["Student"]
           /\ Referencing(inst[i]._id) # {})
            => /\ last'.ok
               /\ DOMAIN rows'["Student"] = DOMAIN rows["Student"] \ {inst[i]._id}
               /\ \A r \in DOMAIN rows'["Student"] : rows'["Student"][r] = rows["Student"][r]
               /\ rows'["EnrollmentRecord"] = rows["EnrollmentRecord"]
               /\ inst' = inst
               /\ \A r \in Referencing(inst[i]._id) :
                    ~init_from_db_tuple("EnrollmentRecord",
                                        <<r>> \o rows'["EnrollmentRecord"][r], tables', rows').ok
     /\ (/\ last'.op \in {"getitem", "next"}
         /\ last'.cls = "EnrollmentRecord"
         /\ last'.pos # 0
         /\ qs.items[last'.pos][2] \notin DOMAIN rows["Student"])
          => ~last'.ok]_vars

\* an iteration step has failed on a row that refers to a deleted Student
C17_Witness ==
  /\ last.op = "next" /\ ~last.ok /\ last.branch = "raised"
  /\ last.cls = "EnrollmentRecord"
  /\ qs.items[last.pos][1] \in DOMAIN rows["EnrollmentRecord"]
  /\ \E i \in gone : inst[i].cls = "Student" /\ inst[i]._id = qs.items[last.pos][2]
  /\ qs.items[last.pos][2] \notin DOMAIN rows["Student"]

\* some Reference field of the row tup names an identity that is not stored
Dangling(cls, tup) ==
  \E idx \in 1..Len(FieldsOf(cls)) :
    /\ FieldsOf(cls)[idx].kind = "ForeignKeyField"
    /\ tup[idx + 1] \notin DOMAIN rows[FieldsOf(cls)[idx].other_cls]

\* C18 as stated: a new iterator starts at the first row; each __next__
\* below count() yields the instance of the next snapshot row, and at
\* count() the iteration stops; no iterator moves another.
C18_IterationAsStated ==
  [][\A it \in IterIds :
       /\ (last'.op = "iter" /\ last'.inst = it)
            => /\ iters'[it].idx = 0
               /\ \A o \in IterIds \ {it} : iters'[o] = iters[o]
       /\ (last'.op = "next" /\ last'.inst = it)
            => /\ \A o \in IterIds \ {it} : iters'[o] = iters[o]
               /\ IF iters[it].idx < Len(qs.items)
                  THEN /\ last'.ok
                       /\ iters'[it].idx = iters[it].idx + 1
                       /\ DecodesRow(last'.obj, qs.model_cls, qs.items[iters[it].idx + 1])
                  ELSE /\ ~last'.ok
                       /\ last'.branch = "StopIteration"
                       /\ iters'[it] = iters[it]]_vars

\* C18 amended: as above, except that a __next__ on a row with a reference
\* to a row that is not stored fails and leaves the iterator where it is.
C18_IterationUnlessDangling ==
  [][\A it \in IterIds :
       /\ (last'.op = "iter" /\ last'.inst = it)
            => /\ iters'[it].idx = 0
               /\ \A o \in IterIds \ {it} : iters'[o] = iters[o]
       /\ (last'.op = "next" /\ last'.inst = it)
            => /\ \A o \in IterIds \ {it} : iters'[o] = iters[o]
               /\ IF iters[it].idx < Len(qs.items)
                  THEN IF Dangling(qs.model_cls, qs.items[iters[it].idx + 1])
                       THEN /\ ~last'.ok
                            /\ last'.branch = "raised"
                            /\ iters'[it] = iters[it]
                       ELSE /\ last'.ok
                            /\ iters'[it].idx = iters[it].idx + 1
                            /\ DecodesRow(last'.obj, qs.model_cls, qs.items[iters[it].idx + 1])
                  ELSE /\ ~last'.ok
                       /\ last'.branch = "StopIteration"
                       /\ iters'[it] = iters[it]]_vars

\* two iterators on one result set of two rows stand at different rows
C18_Witness ==
  /\ last.op = "next" /\ last.ok
  /\ Len(qs.items) = 2
  /\ \E it \in IterIds : \E o \in IterIds \ {it} :
       /\ iters[it].live /\ iters[it].idx = 2
       /\ iters[o].live /\ iters[o].idx = 1
       /\ last.inst = o
       /\ last.obj._id = qs.items[1][1]

-----------------------------------------------------------------------------
(* Indexing, checked under SpecFk                                          *)

\* the access returned at position pos of the result set: if it returned an
\* instance, it is the instance of the row held there, and a row without
\* Reference fields always decodes
IndexedAt(pos, outcome) ==
  /\ outcome.pos = pos
  /\ outcome.ok => DecodesRow(outcome.obj, qs.model_cls, qs.items[pos])
  /\ ~HasReference(qs.model_cls) => outcome.ok

\* C19 as stated: indexing at a key from 0 to count() - 1 decodes the row at
\* that position, and indexing at any other key fails.
C19_IndexingAsStated ==
  [][last'.op = "getitem"
       => IF 0 <= last'.key /\ last'.key < Len(qs.items)
          THEN IndexedAt(last'.key + 1, last')
          ELSE ~last'.ok]_vars

\* C19 amended: a key from -count() to -1 counts from the end of the
\* snapshot and decodes the row at count() + key; only a key below -count()
\* or from count() on fails.
C19_IndexingFromEitherEnd ==
  [][last'.op = "getitem"
       => IF 0 <= last'.key /\ last'.key < Len(qs.items)
          THEN IndexedAt(last'.key + 1, last')
          ELSE IF 0 - Len(qs.items) <= last'.key /\ last'.key < 0
               THEN IndexedAt(Len(qs.items) + last'.key + 1, last')
               ELSE ~last'.ok /\ last'.pos = 0]_vars

\* a negative key has returned the first of two rows
C19_Witness ==
  /\ last.op = "getitem" /\ last.ok
  /\ last.key = 0 - 2
  /\ Len(qs.items) = 2
  /\ last.obj._id = qs.items[1][1]
  /\ qs.items[1][1] # qs.items[2][1]

-----------------------------------------------------------------------------
(* Save after delete, checked under Spec                                   *)

\* C20: Save after delete changes nothing in the store.  A delete leaves
\* every instance as it is in memory; a save of an instance whose delete
\* has run takes the update branch and leaves every stored row as it was.
C20_SaveAfterDelete ==
  [][/\ last'.op = "delete" => inst' = inst
     /\ \A i \in DOMAIN inst :
          (last'.op = "save" /\ last'.inst = i /\ i \in gone)
            => /\ last'.branch = "update"
               /\ rows' = rows]_vars

====
